---- MODULE Spec2Model ----
(***************************************************************************)
(* Iron Tracker (src/iron_tracker.py): the logs table, the sidebar form,   *)
(* the views every script run renders and the PDF report.                  *)
(*                                                                         *)
(* Units.  weight is counted in steps of 1.25 kg (the step of the weight   *)
(* input), so volume = weight * reps * sets is in the same unit.           *)
(* estimated_1rm is kept times 30 (unit 1.25/30 kg), which keeps           *)
(* weight * (1 + reps / 30) an integer: weight * (30 + reps).              *)
(* sleep_hours is counted in half hours.  Plate calculator weights are in  *)
(* sixteenths of a kilogram.  A date is a day number.                      *)
(***************************************************************************)
EXTENDS Integers, FiniteSets, Sequences, TLC

VARIABLES
    logs,        \* rows of table logs (iron_db.db)
    seq,         \* sqlite_sequence of logs: the largest id ever assigned
    today,       \* date.today() of the last script run
    msg,         \* status message the last run's handler emitted
    balance,     \* tab2: push / pull ratio and message
    corr_view,   \* tab3: what the correlation section shows
    status,      \* tab2: rows of get_muscle_status, in display order
    report,      \* tab4: what "Generate PDF Report" produced in the last run
    bar_input,   \* tab1: "Barbell Weight (kg)"
    target_w,    \* tab1: "Target Weight (kg)"
    needed,      \* tab1: plate_calculator(target_w, bar_input)
    logged,      \* sessions logged since start-up
    weight_in,   \* sidebar: "Weight (kg)"
    reps_in,     \* sidebar: "Reps"
    e1rm         \* calculate_1rm(weight_in, reps_in)

vars == <<logs, seq, today, msg, balance, corr_view, status, report,
          bar_input, target_w, needed, logged, weight_in, reps_in, e1rm>>

storeVars == <<logs, seq, today, msg, balance, corr_view, status, report, logged>>
plateVars == <<bar_input, target_w, needed>>
formVars == <<weight_in, reps_in, e1rm>>

\* ------------------------------------------------------------------ bounds
MaxLogs == 2          \* sessions logged on top of the stored history
MaxHist == 4          \* rows the database file holds at start-up (Spec)
MaxDays == 1          \* days that pass while the app is used
MaxRepHist == 12      \* rows the database file holds at start-up (SpecReport)
MaxBarSteps == 10     \* bar_input in 15, 16, .. 15 + MaxBarSteps kg
MaxTargetSteps == 80  \* target_w in 0, 2.5, .. 2.5 * MaxTargetSteps kg
MaxFormWeight == 8    \* weight_in in 0..MaxFormWeight steps (SpecForm)
MaxFormReps == 35     \* reps_in in 1..MaxFormReps (SpecForm)

Day0 == 100           \* day number of the first script run

\* ------------------------------------------------------- static catalogue
ex_map ==
    [ex \in {"Squat", "Deadlift", "Leg Press", "Bench Press", "Incline Bench",
             "Dips", "Overhead Press", "Lateral Raise", "Barbell Row",
             "Pull Up", "Lat Pulldown", "Bicep Curl", "Tricep Extension"} |->
        CASE ex \in {"Squat", "Leg Press"} -> "Legs"
          [] ex \in {"Deadlift", "Barbell Row", "Pull Up", "Lat Pulldown"} -> "Back"
          [] ex \in {"Bench Press", "Incline Bench", "Dips"} -> "Chest"
          [] ex \in {"Overhead Press", "Lateral Raise"} -> "Shoulders"
          [] OTHER -> "Arms"]

push_exercises ==
    {"Squat", "Leg Press", "Bench Press", "Incline Bench",
     "Dips", "Overhead Press", "Lateral Raise", "Tricep Extension"}

categorize(ex_name) == IF ex_name \in push_exercises THEN "Push" ELSE "Pull"

\* ------------------------------------------------------------- algorithms
\* a plausible slip: the reps = 1 special case is lost
calculate_1rm_nospecial(weight, reps) == weight * (30 + reps)

\* a plausible slip: reps // 30 instead of reps / 30
calculate_1rm_intdiv(weight, reps) ==
    IF reps = 1 THEN weight * 30 ELSE weight * 30 * (1 + (reps \div 30))

\* calculate_1rm, times 30
calculate_1rm(weight, reps) ==
    IF reps = 1 THEN weight * 30 ELSE weight * (30 + reps)

RECURSIVE SumVolume(_)
SumVolume(df) ==
    IF df = {} THEN 0
    ELSE LET e == CHOOSE x \in df : TRUE
         IN  e.volume + SumVolume(df \ {e})

MaxOf(S) == CHOOSE x \in S : \A y \in S : y <= x
MinOf(S) == CHOOSE x \in S : \A y \in S : x <= y

\* ------------------------------------------------------------ tab2: views
\* df.groupby('type')['volume'].sum(): one row per type that occurs
get_push_pull_ratio(df) ==
    [t \in {categorize(e.exercise) : e \in df} |->
        SumVolume({e \in df : categorize(e.exercise) = t})]

NoRatio == <<>>

\* a plausible slip: >= 1.5 instead of > 1.5
BalanceView_ge(df) ==
    IF df = {} THEN [ratio |-> NoRatio, message |-> "log first"]
    ELSE LET pp_data == get_push_pull_ratio(df)
             push_vol == IF "Push" \in DOMAIN pp_data THEN pp_data["Push"] ELSE 0
             pull_vol == IF "Pull" \in DOMAIN pp_data THEN pp_data["Pull"] ELSE 0
         IN  IF pull_vol > 0
             THEN [ratio |-> <<push_vol, pull_vol>>,
                   message |-> IF 2 * push_vol >= 3 * pull_vol THEN "Push Dominant"
                               ELSE IF 4 * push_vol < 3 * pull_vol THEN "Pull Dominant"
                               ELSE "Healthy Balance"]
             ELSE [ratio |-> NoRatio, message |-> "none"]

\* the Push / Pull Balance column; ratio = push_vol / pull_vol is kept as the
\* pair <<push_vol, pull_vol>>, and ratio > 1.5 is 2 * push_vol > 3 * pull_vol
BalanceView(df) ==
    IF df = {} THEN [ratio |-> NoRatio, message |-> "log first"]
    ELSE LET pp_data == get_push_pull_ratio(df)
             push_vol == IF "Push" \in DOMAIN pp_data THEN pp_data["Push"] ELSE 0
             pull_vol == IF "Pull" \in DOMAIN pp_data THEN pp_data["Pull"] ELSE 0
         IN  IF pull_vol > 0
             THEN [ratio |-> <<push_vol, pull_vol>>,
                   message |-> IF 2 * push_vol > 3 * pull_vol THEN "Push Dominant"
                               ELSE IF 4 * push_vol < 3 * pull_vol THEN "Pull Dominant"
                               ELSE "Healthy Balance"]
             ELSE [ratio |-> NoRatio, message |-> "none"]

\* a plausible slip: the thresholds of the other variant of the app
get_color_variant(days) ==
    IF days <= 2 THEN "Recovering"
    ELSE IF days <= 5 THEN "Prime State"
    ELSE "Cold / Neglected"

get_color(days) ==
    IF days <= 1 THEN "Recovering"
    ELSE IF days <= 4 THEN "Prime State"
    ELSE "Cold / Neglected"

\* groupby sorts its keys; the stable order of the rows before sort_values
GroupOrder == <<"Arms", "Back", "Chest", "Legs", "Shoulders">>
GroupIndex(g) == CHOOSE i \in 1..Len(GroupOrder) : GroupOrder[i] = g

RECURSIVE SortByDays(_)
SortByDays(rows) ==
    IF rows = {} THEN <<>>
    ELSE LET first == CHOOSE r \in rows : \A o \in rows :
                          \/ r.days_since < o.days_since
                          \/ /\ r.days_since = o.days_since
                             /\ GroupIndex(r.muscle_group) <= GroupIndex(o.muscle_group)
         IN  <<first>> \o SortByDays(rows \ {first})

get_muscle_status(df, day) ==
    IF df = {} THEN <<>>
    ELSE SortByDays({
           LET last == MaxOf({e.date : e \in {x \in df : x.muscle_group = g}})
           IN  [muscle_group |-> g, date |-> last, days_since |-> day - last,
                Status |-> get_color(day - last)]
           : g \in {e.muscle_group : e \in df}})

\* ---------------------------------------------------- tab3: correlation
CorrView(df) ==
    IF df # {} /\ Cardinality(df) > 5 THEN "chart" ELSE "need more data"

\* --------------------------------------------------- tab1: plate calculator
plates == <<400, 320, 240, 160, 80, 40, 20>>

\* the loop over plates from plates[i] on; side2 is twice side_weight
RECURSIVE PlateLoop(_, _, _)
PlateLoop(i, side2, result) ==
    IF i > Len(plates) THEN result
    ELSE LET p == plates[i]
             count == side2 \div (2 * p)
         IN  IF count > 0
             THEN PlateLoop(i + 1, side2 - 2 * count * p, result @@ (p :> count))
             ELSE PlateLoop(i + 1, side2, result)

\* a plausible slip: the 15 kg plate is missing from the list
RECURSIVE PlateLoopNo15(_, _, _)
PlateLoopNo15(i, side2, result) ==
    IF i > Len(plates) THEN result
    ELSE LET p == plates[i]
             count == IF p = 240 THEN 0 ELSE side2 \div (2 * p)
         IN  IF count > 0
             THEN PlateLoopNo15(i + 1, side2 - 2 * count * p, result @@ (p :> count))
             ELSE PlateLoopNo15(i + 1, side2, result)

plate_calculator_no15(target_weight, bar_weight) ==
    IF target_weight <= bar_weight THEN <<>>
    ELSE PlateLoopNo15(1, target_weight - bar_weight, <<>>)

plate_calculator(target_weight, bar_weight) ==
    IF target_weight <= bar_weight THEN <<>>
    ELSE PlateLoop(1, target_weight - bar_weight, <<>>)

\* ------------------------------------------------------- tab4: PDF report
recent_df(df, day) == {e \in df : e.date >= day - 30}

old_df(df, day) == {e \in df : e.date >= (day - 30) - 30 /\ e.date < day - 30}

\* a plausible slip: 0 instead of 100 when there is nothing to divide by
vol_pct_else0(recent_vol, old_vol) ==
    IF old_vol > 0
    THEN [num |-> (recent_vol - old_vol) * 100, den |-> old_vol, divided |-> TRUE]
    ELSE [num |-> 0, den |-> 1, divided |-> FALSE]

\* vol_pct as the fraction num / den; divided tells whether the division ran
vol_pct(recent_vol, old_vol) ==
    IF old_vol > 0
    THEN [num |-> (recent_vol - old_vol) * 100, den |-> old_vol, divided |-> TRUE]
    ELSE [num |-> 100, den |-> 1, divided |-> FALSE]

Verdict(pct, recent_workouts) ==
    IF pct.num > 10 * pct.den /\ recent_workouts >= 12 THEN "OUTSTANDING"
    ELSE IF pct.num > 0 THEN "ACCEPTABLE"
    ELSE "UNSATISFACTORY"

key_lifts == {"Squat", "Bench Press", "Deadlift", "Overhead Press"}

NoData == -1

\* int(best_1rm) in kg; estimated_1rm is in 1.25/30 kg
BestLifts(df) ==
    [lift \in key_lifts |->
        LET lift_data == {e \in df : e.exercise = lift}
        IN  IF lift_data # {}
            THEN MaxOf({e.estimated_1rm : e \in lift_data}) \div 24
            ELSE NoData]

NoReport ==
    [kind |-> "none", recent_vol |-> 0, old_vol |-> 0, vol_diff |-> 0,
     vol_pct |-> [num |-> 0, den |-> 1, divided |-> FALSE],
     recent_workouts |-> 0, old_workouts |-> 0, verdict |-> "",
     is_good_vol |-> FALSE, is_good_cons |-> FALSE,
     best |-> [lift \in key_lifts |-> NoData]]

create_pdf_report(df, day) ==
    LET recent == recent_df(df, day)
        old == old_df(df, day)
        recent_vol == SumVolume(recent)
        old_vol == SumVolume(old)
        vol_diff == recent_vol - old_vol
        pct == vol_pct(recent_vol, old_vol)
        recent_workouts == Cardinality({e.date : e \in recent})
        old_workouts == Cardinality({e.date : e \in old})
    IN  [kind |-> "pdf", recent_vol |-> recent_vol, old_vol |-> old_vol,
         vol_diff |-> vol_diff, vol_pct |-> pct,
         recent_workouts |-> recent_workouts, old_workouts |-> old_workouts,
         verdict |-> Verdict(pct, recent_workouts),
         is_good_vol |-> (vol_diff > 0),
         is_good_cons |-> (recent_workouts >= old_workouts),
         best |-> BestLifts(df)]

\* --------------------------------------------------------------- the store
\* the row the log_form submit handler appends; AUTOINCREMENT supplies id
Entry(id, date_in, exercise_in, weight, reps, sets_in, sleep_in, notes_in) ==
    [id |-> id, date |-> date_in, exercise |-> exercise_in,
     muscle_group |-> ex_map[exercise_in],
     weight |-> weight, reps |-> reps, sets |-> sets_in,
     sleep_hours |-> sleep_in, notes |-> notes_in,
     estimated_1rm |-> calculate_1rm(weight, reps),
     volume |-> weight * reps * sets_in]

\* a plausible slip: MIN(id) instead of MAX(id)
SelectMaxId_min(df) == IF df = {} THEN {} ELSE {MinOf({e.id : e \in df})}

\* SELECT MAX(id) FROM logs: {} stands for NULL
SelectMaxId(df) == IF df = {} THEN {} ELSE {MaxOf({e.id : e \in df})}

\* a plausible slip: the id is taken from the rows still present
NextId_reuse(df, s) == IF df = {} THEN 1 ELSE MaxOf({e.id : e \in df}) + 1

\* INTEGER PRIMARY KEY AUTOINCREMENT: one more than the largest id ever used
NextId(df, s) == MaxOf({s} \cup {e.id : e \in df}) + 1

\* the database file a start-up finds: n0 sessions logged with the form's
\* defaults (Squat, 5 reps, 3 sets, 7.5 h sleep) at weight hw, one a day up
\* to yesterday
History(n0, hw) ==
    {Entry(i, Day0 - 1 - (n0 - i), "Squat", hw, 5, 3, 15, "") : i \in 1..n0}

NoMsg == [kind |-> "none", arg |-> <<>>]

\* the days date.today() can return in the next script run
Clock(day) == {d \in {day, day + 1} : d <= Day0 + MaxDays}

\* what one script run renders from the table
Rendered(df, day) ==
    /\ balance' = BalanceView(df)
    /\ corr_view' = CorrView(df)
    /\ status' = get_muscle_status(df, day)

InitStore(Sizes, Weights) ==
    /\ \E n0 \in Sizes, hw \in Weights : logs = History(n0, hw) /\ seq = n0
    /\ today = Day0
    /\ logged = 0
    /\ msg = NoMsg
    /\ balance = BalanceView(logs)
    /\ corr_view = CorrView(logs)
    /\ status = get_muscle_status(logs, today)
    /\ report = NoReport

InitPlate ==
    /\ bar_input = 320
    /\ target_w = 1600
    /\ needed = plate_calculator(target_w, bar_input)

InitForm ==
    /\ weight_in = 48
    /\ reps_in = 5
    /\ e1rm = calculate_1rm(weight_in, reps_in)

\* sidebar: COMMIT TO DB
Submit(date_in, exercise_in, weight, reps, sets_in, sleep_in, notes_in) ==
    /\ logged < MaxLogs
    /\ logged' = logged + 1
    /\ \E day \in Clock(today) :
         /\ today' = day
         /\ LET id == NextId(logs, seq)
            IN  /\ logs' = logs \cup {Entry(id, date_in, exercise_in, weight, reps,
                                            sets_in, sleep_in, notes_in)}
                /\ seq' = id
         /\ msg' = [kind |-> "Logged", arg |-> <<exercise_in, weight>>]
         /\ Rendered(logs', day)
    /\ report' = NoReport
    /\ UNCHANGED <<plateVars, formVars>>

LogSession(Dates, Exercises, Weights, Reps, Sets) ==
    \E date_in \in Dates, exercise_in \in Exercises, weight \in Weights,
       reps \in Reps, sets_in \in Sets :
        Submit(date_in, exercise_in, weight, reps, sets_in, 15, "")

\* tab4: Delete Last Log Entry
DeleteLast ==
    /\ \E day \in Clock(today) :
         LET last_id_result == SelectMaxId(logs)
         IN  IF last_id_result # {} /\ last_id_result # {0}
             THEN /\ logs' = {e \in logs : e.id \notin last_id_result}
                  /\ msg' = [kind |-> "Deleted", arg |-> last_id_result]
                  /\ today' = day
                  /\ Rendered(logs', day)
             ELSE /\ logs' = logs
                  /\ msg' = [kind |-> "Database is empty", arg |-> <<>>]
                  /\ today' = day
                  /\ Rendered(logs, day)
    /\ report' = NoReport
    /\ UNCHANGED <<seq, logged, plateVars, formVars>>

\* tab4: Generate PDF Report
GenerateReport ==
    /\ \E day \in Clock(today) :
         /\ today' = day
         /\ Rendered(logs, day)
         /\ IF logs # {}
            THEN /\ report' = create_pdf_report(logs, day)
                 /\ msg' = NoMsg
            ELSE /\ report' = NoReport
                 /\ msg' = [kind |-> "Not enough data", arg |-> <<>>]
    /\ UNCHANGED <<logs, seq, logged, plateVars, formVars>>

\* any other interaction: the script runs again
Rerun ==
    /\ \E day \in Clock(today) :
         /\ today' = day
         /\ Rendered(logs, day)
    /\ msg' = NoMsg
    /\ report' = NoReport
    /\ UNCHANGED <<logs, seq, logged, plateVars, formVars>>

\* tab1: the two number inputs of the plate calculator
SetBar ==
    /\ \E k \in 0..MaxBarSteps :
         /\ bar_input' = 16 * (15 + k)
         /\ needed' = plate_calculator(target_w, bar_input')
    /\ UNCHANGED <<target_w, storeVars, formVars>>

SetTarget ==
    /\ \E k \in 0..MaxTargetSteps :
         /\ target_w' = 40 * k
         /\ needed' = plate_calculator(target_w', bar_input)
    /\ UNCHANGED <<bar_input, storeVars, formVars>>

\* sidebar: the weight and reps inputs, and what Submit would compute
SetWeight ==
    /\ \E w \in 0..MaxFormWeight :
         /\ weight_in' = w
         /\ e1rm' = calculate_1rm(w, reps_in)
    /\ UNCHANGED <<reps_in, storeVars, plateVars>>

SetReps ==
    /\ \E r \in 1..MaxFormReps :
         /\ reps_in' = r
         /\ e1rm' = calculate_1rm(weight_in, r)
    /\ UNCHANGED <<weight_in, storeVars, plateVars>>

\* ---------------------------------------------------------- specifications
\* weight_in of Spec: 0 and 200 kg; of SpecReport: 50 and 55 kg
StoreWeights == {0, 160}
ReportWeights == {40, 44}

\* the store: sessions of today's date
Init == InitStore(0..MaxHist, {48}) /\ InitPlate /\ InitForm

LogToday ==
    LogSession({Day0}, {"Squat", "Deadlift"}, StoreWeights, {1, 2}, {3})

Next == LogToday \/ DeleteLast \/ Rerun

Spec == Init /\ [][Next]_vars

\* the report: sessions dated on the edges of the two 30-day windows
InitReport == InitStore({MaxRepHist}, {0, 48}) /\ InitPlate /\ InitForm

LogDated ==
    LogSession({Day0 - 60, Day0 - 30, Day0 + 1}, {"Deadlift"}, ReportWeights, {5}, {3})

NextReport == LogDated \/ DeleteLast \/ GenerateReport

SpecReport == InitReport /\ [][NextReport]_vars

\* recovery: sessions of the last days
InitStatus == InitStore({0}, {48}) /\ InitPlate /\ InitForm

LogRecent ==
    LogSession({Day0 - 4, Day0 - 1}, {"Squat", "Deadlift", "Bicep Curl"}, {48}, {5}, {3})

NextStatus == LogRecent \/ DeleteLast \/ Rerun

SpecStatus == InitStatus /\ [][NextStatus]_vars

\* the plate calculator
InitCalc == InitStore({0}, {48}) /\ InitPlate /\ InitForm

NextPlate == SetBar \/ SetTarget

SpecPlate == InitCalc /\ [][NextPlate]_vars

\* the one-rep-max estimate of the form's values
NextForm == SetWeight \/ SetReps

SpecForm == InitCalc /\ [][NextForm]_vars

\* ------------------------------------------------------------------ claims
\* C1: every stored entry's estimated_1rm is weight when reps = 1 and
\* weight * (1 + reps / 30) otherwise (here times 30), its volume is
\* weight * reps * sets, both of its own fields, and no step rewrites the
\* derived fields of an entry that stays stored.
C1_DerivedFields ==
    /\ [](\A e \in logs :
            /\ e.estimated_1rm =
                 (IF e.reps = 1 THEN 30 * e.weight ELSE e.weight * 30 + e.weight * e.reps)
            /\ e.volume = e.weight * e.reps * e.sets)
    /\ [][\A e \in logs : \A f \in logs' :
            f.id = e.id => /\ f.estimated_1rm = e.estimated_1rm
                           /\ f.volume = e.volume]_vars

C1_Witness ==
    /\ msg.kind = "Deleted"
    /\ \E e \in logs : e.reps = 1 /\ e.weight > 0 /\ e.volume > 0
    /\ \E f \in logs : f.reps # 1 /\ f.weight > 0

\* C2: a step changes the stored entries only by appending a new one or by
\* deleting the one with the highest id; Delete Last Log Entry on a non-empty
\* store removes exactly that entry and leaves the others as they were, and
\* on an empty store removes nothing and reports "Database is empty".
C2_DeleteOnlyLast ==
    [][/\ \A e \in logs : \A f \in logs' : f.id = e.id => f = e
       /\ \A e \in logs \ logs' :
            /\ \A o \in logs : o.id <= e.id
            /\ logs' = logs \ {e}
       /\ \A f \in logs' \ logs : \A o \in logs : o.id < f.id
       /\ msg'.kind = "Deleted" =>
            /\ logs # {}
            /\ Cardinality(logs') = Cardinality(logs) - 1
            /\ \E e \in logs :
                 /\ \A o \in logs : o.id <= e.id
                 /\ logs' = logs \ {e}
                 /\ msg'.arg = {e.id}
       /\ msg'.kind = "Database is empty" => logs = {} /\ logs' = {}
      ]_vars

C2_Witness ==
    /\ msg.kind = "Deleted"
    /\ Cardinality(logs) >= 2
    /\ \A e \in logs : {e.id} # msg.arg /\ e.id < seq

\* C7: the correlation chart is shown whenever the log holds at least 5
\* entries, and the "need more data" message only with fewer than 5.
C7_CorrelationFromFive ==
    /\ Cardinality(logs) >= 5 => corr_view = "chart"
    /\ Cardinality(logs) < 5 => corr_view = "need more data"

\* C8: the balance message is decided by the summed push and pull volumes:
\* with pull volume zero no ratio is computed and no balance message is
\* shown; otherwise exactly one is shown: push-dominant when push/pull > 1.5,
\* pull-dominant when push/pull < 0.75, balanced in between.
C8_PushPullBalance ==
    LET push == SumVolume({e \in logs : e.exercise \in push_exercises})
        pull == SumVolume({e \in logs : e.exercise \notin push_exercises})
    IN  /\ pull = 0 =>
             /\ balance.ratio = NoRatio
             /\ balance.message \notin {"Push Dominant", "Pull Dominant", "Healthy Balance"}
        /\ pull > 0 =>
             /\ balance.ratio = <<push, pull>>
             /\ balance.message = "Push Dominant" <=> 2 * push > 3 * pull
             /\ balance.message = "Pull Dominant" <=> 4 * push < 3 * pull
             /\ balance.message = "Healthy Balance" <=>
                    (3 * pull <= 4 * push /\ 2 * push <= 3 * pull)

C8_Witness ==
    /\ balance.ratio # NoRatio
    /\ 2 * balance.ratio[1] = 3 * balance.ratio[2]
    /\ balance.message = "Healthy Balance"
    /\ msg.kind = "Logged"

\* the two windows as create_pdf_report cuts them, and what it sums
RecentVol == SumVolume(recent_df(logs, today))
OldVol == SumVolume(old_df(logs, today))
RecentSessions == Cardinality({e.date : e \in recent_df(logs, today)})

\* C3: a non-positive volume change (recent volume <= prior volume) gives
\* UNSATISFACTORY; OUTSTANDING needs a change of more than 10% (taken as 100%
\* when the prior volume is zero) and at least 12 recent session dates; any
\* other positive change gives ACCEPTABLE.
C3_VerdictTiers ==
    report.kind = "pdf" =>
        report.verdict =
            IF RecentVol <= OldVol THEN "UNSATISFACTORY"
            ELSE IF /\ (RecentVol - OldVol) * 100 > 10 * OldVol
                    /\ RecentSessions >= 12
                 THEN "OUTSTANDING"
                 ELSE "ACCEPTABLE"

\* C4: with zero prior volume and positive recent volume nothing is divided,
\* the percentage is 100, and the verdict is OUTSTANDING with at least 12
\* recent session dates and ACCEPTABLE otherwise.
C4_ZeroPriorVolume ==
    (report.kind = "pdf" /\ OldVol = 0 /\ RecentVol > 0) =>
        /\ ~report.vol_pct.divided
        /\ report.vol_pct.num = 100 /\ report.vol_pct.den = 1
        /\ report.verdict =
             IF RecentSessions >= 12 THEN "OUTSTANDING" ELSE "ACCEPTABLE"

C4_Witness ==
    /\ report.kind = "pdf"
    /\ report.old_vol = 0 /\ report.recent_vol > 0
    /\ report.recent_workouts = 12
    /\ report.verdict = "OUTSTANDING"
    /\ \E e \in logs : e.date < (today - 30) - 30

\* C5: the recent window holds exactly the entries with
\* today-30 <= date <= today and the prior window exactly those with
\* today-60 <= date < today-30; the windows are disjoint and no other entry
\* counts in either window's volume or sessions.
C5_Windows ==
    report.kind = "pdf" =>
        LET recent == {e \in logs : today - 30 <= e.date /\ e.date <= today}
            prior == {e \in logs : today - 60 <= e.date /\ e.date < today - 30}
        IN  /\ recent \cap prior = {}
            /\ report.recent_vol = SumVolume(recent)
            /\ report.old_vol = SumVolume(prior)
            /\ report.recent_workouts = Cardinality({e.date : e \in recent})
            /\ report.old_workouts = Cardinality({e.date : e \in prior})

StatusRows == {status[i] : i \in 1..Len(status)}
Tier(s) == CASE s = "Recovering" -> 1 [] s = "Prime State" -> 2 [] OTHER -> 3
LastDate(g) == MaxOf({e.date : e \in {x \in logs : x.muscle_group = g}})

\* what C6 and its amendment share: one row per muscle group that has
\* entries, days counted from the group's most recent entry, the status a
\* function of the days alone and never earlier for more days
StatusShape ==
    /\ {r.muscle_group : r \in StatusRows} = {e.muscle_group : e \in logs}
    /\ Len(status) = Cardinality({e.muscle_group : e \in logs})
    /\ \A r \in StatusRows : r.days_since = today - LastDate(r.muscle_group)
    /\ \A r, o \in StatusRows :
         r.days_since <= o.days_since => Tier(r.Status) <= Tier(o.Status)

\* C6 as stated: days <= 2 is Recovering, 2 < days <= 5 is Prime State,
\* days > 5 is Cold / Neglected.
C6_DefaultThresholds ==
    /\ StatusShape
    /\ \A r \in StatusRows :
         r.Status = IF r.days_since <= 2 THEN "Recovering"
                    ELSE IF r.days_since <= 5 THEN "Prime State"
                    ELSE "Cold / Neglected"

\* C6 amended: days <= 1 is Recovering, 1 < days <= 4 is Prime State,
\* days > 4 is Cold / Neglected; the rest as stated.
C6_CodeThresholds ==
    /\ StatusShape
    /\ \A r \in StatusRows :
         r.Status = IF r.days_since <= 1 THEN "Recovering"
                    ELSE IF r.days_since <= 4 THEN "Prime State"
                    ELSE "Cold / Neglected"

C6_Witness ==
    /\ \E r \in StatusRows : r.days_since = 2 /\ r.Status = "Prime State"
    /\ \E r \in StatusRows : r.days_since = 5 /\ r.Status = "Cold / Neglected"
    /\ status[1].days_since < status[2].days_since

\* fewest plates that add up to n steps of 1.25 kg, by dynamic programming:
\* tab[k + 1] is the answer for k
Denominations == {plates[i] \div 20 : i \in 1..Len(plates)}

RECURSIVE FewestTable(_, _)
FewestTable(n, tab) ==
    IF Len(tab) > n THEN tab
    ELSE LET k == Len(tab)
         IN  FewestTable(n, Append(tab,
                 1 + MinOf({tab[k - d + 1] : d \in {x \in Denominations : x <= k}})))

FewestPlates(n) == FewestTable(n, <<0>>)[n + 1]

RECURSIVE PlateCount(_, _)
PlateCount(result, ps) ==
    IF ps = {} THEN 0
    ELSE LET p == CHOOSE x \in ps : TRUE
         IN  result[p] + PlateCount(result, ps \ {p})

RECURSIVE PlateWeight(_, _)
PlateWeight(result, ps) ==
    IF ps = {} THEN 0
    ELSE LET p == CHOOSE x \in ps : TRUE
         IN  p * result[p] + PlateWeight(result, ps \ {p})

\* C9: no plates when target <= bar; otherwise every count is what the
\* largest-first descent over 25, 20, 15, 10, 5, 2.5, 1.25 leaves, and for a
\* per-side weight that is a multiple of 1.25 the plates add up to it exactly,
\* only the 25 has a count above 1, and no combination needs fewer plates;
\* target 100 on a bar of 20 gives one 25 and one 15.
C9_PlateBreakdown ==
    LET side2 == target_w - bar_input
        ps == DOMAIN needed
    IN  /\ target_w <= bar_input => ps = {}
        /\ target_w > bar_input =>
             /\ ps \subseteq {plates[i] : i \in 1..Len(plates)}
             /\ \A p \in ps : needed[p] > 0
             /\ \A i \in 1..Len(plates) :
                  LET above == {plates[j] : j \in 1..(i - 1)} \cap ps
                      left2 == side2 - 2 * PlateWeight(needed, above)
                  IN  (IF plates[i] \in ps THEN needed[plates[i]] ELSE 0)
                          = left2 \div (2 * plates[i])
             /\ side2 % 40 = 0 =>
                  /\ 2 * PlateWeight(needed, ps) = side2
                  /\ \A p \in ps : p # 400 => needed[p] = 1
                  /\ PlateCount(needed, ps) = FewestPlates(side2 \div 40)
        /\ (target_w = 1600 /\ bar_input = 320) =>
             (ps = {400, 240} /\ needed[400] = 1 /\ needed[240] = 1)

C9_Witness ==
    /\ target_w > bar_input
    /\ (target_w - bar_input) % 40 = 0
    /\ 400 \in DOMAIN needed /\ needed[400] = 2
    /\ Cardinality(DOMAIN needed) >= 4

\* C10: for a fixed positive weight the estimate grows strictly with reps,
\* from reps = 1 on, where it is the weight itself.
C10_StrictlyIncreasing ==
    /\ [](reps_in = 1 => e1rm = 30 * weight_in)
    /\ [][(weight_in' = weight_in /\ weight_in > 0 /\ reps_in' > reps_in)
             => e1rm' > e1rm]_vars

C10_Witness ==
    /\ weight_in > 0
    /\ reps_in = 2
    /\ e1rm > 30 * weight_in

\* C11: ids are handed out in strictly increasing order and never again
\* after a deletion, so the entry a log appends has the highest id whatever
\* its date; taking the highest id out of the store after a log gives the
\* store before the log, and a delete pressed right after a log removes
\* exactly the entry just logged.
C11_LogThenDelete ==
    /\ [](/\ \A e \in logs : 1 <= e.id /\ e.id <= seq
          /\ \A e, o \in logs : e.id = o.id => e = o)
    /\ [][/\ seq' >= seq
          /\ msg'.kind = "Logged" =>
               \E f \in logs' :
                   /\ f \notin logs
                   /\ f.id = seq' /\ seq' > seq
                   /\ \A o \in logs : o.id < f.id
                   /\ logs' \ {f} = logs
                   /\ {e \in logs' : \E o \in logs' : o.id > e.id} = logs
          /\ (msg.kind = "Logged" /\ msg'.kind = "Deleted") =>
               /\ msg'.arg = {seq}
               /\ logs' = {e \in logs : e.id # seq}
               /\ Cardinality(logs') = Cardinality(logs) - 1
         ]_vars

C11_Witness ==
    /\ msg.kind = "Logged"
    /\ seq > Cardinality(logs)
    /\ \E e \in logs : e.id = seq /\ \E o \in logs : o.date > e.date

====
